---- MODULE Spec2Model ----
(***************************************************************************)
(* Model of src/main.cpp: the order-statistic helpers get_percentile and   *)
(* get_median, and the load -> normalize -> display pipeline of main.      *)
(*                                                                         *)
(* Numbers.  A coordinate (a C++ double) is an integer count of grid steps *)
(* of 2^-20, so that every model value and every difference of two model   *)
(* values is an exactly representable double.  One is the double 1.0.      *)
(* DblMax stands for the largest finite double, PosInf for +infinity: a    *)
(* difference above DblMax overflows to PosInf, as p95 - p5 does in IEEE   *)
(* arithmetic.  A percentile p is an integer number of hundredths.         *)
(***************************************************************************)
EXTENDS Integers, Sequences, FiniteSets

VARIABLES
    pc,                 \* position of main
    file,               \* state of the std::ifstream
    points_data,        \* std::vector<Point3D>
    x_coords, y_coords, z_coords,   \* std::vector<double>, one per axis
    robust_center,      \* <<median_x, median_y, median_z>>
    p5, p95,            \* <<p5_x, p5_y, p5_z>>, <<p95_x, p95_y, p95_z>>
    max_robust_extent,
    scale,              \* a rational <<num, den>>
    cloud_points,       \* the open3d PointCloud and the calls applied to it
    exit_code,          \* <<>> while main runs, then <<value returned>>
    log,                \* the pipeline's events, in order
    data,               \* the array of the order-statistic harness
    fresh,              \* the harness array as it was constructed
    ret,                \* value returned by the harness's last call
    last                \* the harness's last call, and the array it was given

vars == <<pc, file, points_data, x_coords, y_coords, z_coords, robust_center,
          p5, p95, max_robust_extent, scale, cloud_points, exit_code, log,
          data, fresh, ret, last>>

mainVars == <<pc, file, points_data, x_coords, y_coords, z_coords,
              robust_center, p5, p95, max_robust_extent, scale, cloud_points,
              exit_code, log>>

statVars == <<data, fresh, ret, last>>

(***************************************************************************)
(* Bounds                                                                  *)
(***************************************************************************)
MaxPoints == 3
MaxLen == 3

(***************************************************************************)
(* The number format                                                       *)
(***************************************************************************)
One == 2^20
DblMax == 2^30 - 1
PosInf == 2 * DblMax + 1
NoValue == 0 - 1

\* 1e-6 lies strictly between one and two grid steps: for a value e on the
\* grid, e > 1e-6 iff e * 10^6 > One iff e > One \div 10^6.
EpsInv == 1000000
GreaterThanEps(e) == e > One \div EpsInv

\* a - b in double arithmetic: exact on the grid, +infinity on overflow.
DSub(a, b) == IF a - b > DblMax THEN PosInf ELSE a - b

DMax(a, b) == IF a < b THEN b ELSE a

RECURSIVE Gcd(_, _)
Gcd(a, b) == IF b = 0 THEN a ELSE Gcd(b, a % b)

\* 1.0 / e for e > 0: the rational One/e in lowest terms, and 0 for +infinity.
Reciprocal(e) ==
    IF e = PosInf THEN <<0, 1>>
    ELSE LET g == Gcd(One, e) IN <<One \div g, e \div g>>

(***************************************************************************)
(* std::nth_element and the two helpers                                    *)
(***************************************************************************)
IsPermutation(q, d) ==
    /\ Len(q) = Len(d)
    /\ \A v \in {d[i] : i \in 1..Len(d)} :
          Cardinality({i \in 1..Len(q) : q[i] = v})
            = Cardinality({i \in 1..Len(d) : d[i] = v})

\* The array s without its i-th element.
Without(s, i) == [k \in 1..(Len(s) - 1) |-> IF k < i THEN s[k] ELSE s[k + 1]]

\* Every reordering of the array d.
RECURSIVE Arrangements(_)
Arrangements(d) ==
    IF d = <<>> THEN {<<>>}
    ELSE UNION {{<<d[i]>> \o t : t \in Arrangements(Without(d, i))} :
                    i \in 1..Len(d)}

\* Every arrangement std::nth_element(begin, begin + idx, end) may leave:
\* a permutation with nothing greater before position idx and nothing
\* smaller after it (idx is 0-based).
NthElement(d, idx) ==
    {q \in Arrangements(d) :
        /\ \A i \in 1..idx : ~(q[idx + 1] < q[i])
        /\ \A j \in (idx + 2)..Len(d) : ~(q[j] < q[idx + 1])}

\* variant: the index taken over size() instead of size() - 1
PercentileIndexOverSize(pct, n) == (pct * n) \div 100

\* static_cast<size_t>(p * (data.size() - 1)), p = pct/100
PercentileIndex(pct, n) == (pct * (n - 1)) \div 100

\* variant: the element at the index is read without the nth_element call
get_percentile_noselect(d, pct) ==
    IF d = <<>> THEN {[threw |-> TRUE, data |-> d, ret |-> NoValue]}
    ELSE {[threw |-> FALSE, data |-> d,
           ret |-> d[PercentileIndex(pct, Len(d)) + 1]]}

get_percentile(d, pct) ==
    IF d = <<>> THEN {[threw |-> TRUE, data |-> d, ret |-> NoValue]}
    ELSE LET idx == PercentileIndex(pct, Len(d))
         IN {[threw |-> FALSE, data |-> q, ret |-> q[idx + 1]] :
                q \in NthElement(d, idx)}

\* variant: the index (n - 1) / 2 instead of n / 2
get_median_lower(d) ==
    IF d = <<>> THEN {[threw |-> TRUE, data |-> d, ret |-> NoValue]}
    ELSE LET n == Len(d)
         IN {[threw |-> FALSE, data |-> q, ret |-> q[(n - 1) \div 2 + 1]] :
                q \in NthElement(d, (n - 1) \div 2)}

get_median(d) ==
    IF d = <<>> THEN {[threw |-> TRUE, data |-> d, ret |-> NoValue]}
    ELSE LET n == Len(d)
         IN {[threw |-> FALSE, data |-> q, ret |-> q[n \div 2 + 1]] :
                q \in NthElement(d, n \div 2)}

(***************************************************************************)
(* The order-statistic harness: one array, any sequence of calls           *)
(***************************************************************************)
StatValues == {0, 1, 2}
Percents == {0, 5, 25, 50, 75, 95, 100}

Arrays == UNION {[1..n -> StatValues] : n \in 0..MaxLen}

NoCall == [op |-> "none", pct |-> 0, before |-> <<>>]

StatIdle ==
    /\ data = <<>> /\ fresh = <<>> /\ ret = NoValue /\ last = NoCall

MainIdle ==
    /\ pc = "start"
    /\ file = "unopened"
    /\ points_data = <<>>
    /\ x_coords = <<>> /\ y_coords = <<>> /\ z_coords = <<>>
    /\ robust_center = <<>>
    /\ p5 = <<>> /\ p95 = <<>>
    /\ max_robust_extent = NoValue
    /\ scale = <<>>
    /\ cloud_points = [points |-> <<>>, calls |-> <<>>]
    /\ exit_code = <<>>
    /\ log = <<>>

StatInit ==
    /\ MainIdle
    /\ data \in Arrays
    /\ fresh = data
    /\ ret = NoValue
    /\ last = NoCall

StatReturn(r, op, pct) ==
    /\ data' = r.data
    /\ ret' = r.ret
    /\ last' = [op |-> IF r.threw THEN "throw" ELSE op, pct |-> pct,
                before |-> data]
    /\ UNCHANGED fresh
    /\ UNCHANGED mainVars

CallMedian ==
    \E r \in get_median(data) : StatReturn(r, "median", 0)

CallPercentile ==
    \E pct \in Percents :
        \E r \in get_percentile(data, pct) : StatReturn(r, "percentile", pct)

StatNext == CallMedian \/ CallPercentile

SpecStat == StatInit /\ [][StatNext]_vars

(***************************************************************************)
(* main                                                                    *)
(***************************************************************************)
\* The points a file may hold.  On the z axis the only values are 0 and
\* +-DblMax, so that a difference is either exact or overflows.
Points ==
    { <<0, 0, 0>>, <<10 * One, 0, 0>>, <<20 * One, 0, 0>>,
      <<0, 1, 0>>, <<0, 2, 0>>, <<0 - One, One, DblMax>>,
      <<0, 0, DblMax>>, <<0, 0, 0 - DblMax>> }

Init == MainIdle /\ StatIdle

Goto(next, event) ==
    /\ pc' = next
    /\ log' = Append(log, event)

\* An exception leaves main: nothing catches it, std::terminate ends the run.
Terminate ==
    /\ pc' = "terminated"
    /\ UNCHANGED log

\* lines 60-65: std::ifstream file(filename); if (!file.is_open()) return 1;
OpenFile ==
    /\ pc = "start"
    /\ \E opened \in BOOLEAN :
          IF opened
          THEN /\ file' = "open"
               /\ exit_code' = exit_code
               /\ Goto("read", "open")
          ELSE /\ file' = "failed"
               /\ exit_code' = <<1>>
               /\ Goto("done", "open")
    /\ UNCHANGED <<points_data, x_coords, y_coords, z_coords, robust_center,
                   p5, p95, max_robust_extent, scale, cloud_points>>
    /\ UNCHANGED statVars

\* variant: the y array receives the x coordinate
ReadPointSwapped(p) ==
    /\ pc = "read"
    /\ Len(points_data) < MaxPoints
    /\ points_data' = Append(points_data, p)
    /\ x_coords' = Append(x_coords, p[1])
    /\ y_coords' = Append(y_coords, p[1])
    /\ z_coords' = Append(z_coords, p[3])
    /\ Goto("read", "parse")
    /\ UNCHANGED <<file, robust_center, p5, p95, max_robust_extent, scale,
                   cloud_points, exit_code>>
    /\ UNCHANGED statVars

\* lines 74-80: file >> x >> y >> z succeeds and the loop body runs
ReadPoint(p) ==
    /\ pc = "read"
    /\ Len(points_data) < MaxPoints
    /\ points_data' = Append(points_data, p)
    /\ x_coords' = Append(x_coords, p[1])
    /\ y_coords' = Append(y_coords, p[2])
    /\ z_coords' = Append(z_coords, p[3])
    /\ Goto("read", "parse")
    /\ UNCHANGED <<file, robust_center, p5, p95, max_robust_extent, scale,
                   cloud_points, exit_code>>
    /\ UNCHANGED statVars

\* line 74: the extraction fails (end of input or an unparsable token, at
\* the first, second or third number); nothing is pushed and the loop ends
ReadEnd ==
    /\ pc = "read"
    /\ pc' = "close"
    /\ UNCHANGED <<file, points_data, x_coords, y_coords, z_coords,
                   robust_center, p5, p95, max_robust_extent, scale,
                   cloud_points, exit_code, log>>
    /\ UNCHANGED statVars

\* line 81
CloseFile ==
    /\ pc = "close"
    /\ file' = "closed"
    /\ Goto("check", "close")
    /\ UNCHANGED <<points_data, x_coords, y_coords, z_coords, robust_center,
                   p5, p95, max_robust_extent, scale, cloud_points, exit_code>>
    /\ UNCHANGED statVars

\* variant: the emptiness check is left out
CheckEmptyMissing ==
    /\ pc = "check"
    /\ pc' = "median_x"
    /\ UNCHANGED <<exit_code, log>>
    /\ UNCHANGED <<file, points_data, x_coords, y_coords, z_coords,
                   robust_center, p5, p95, max_robust_extent, scale,
                   cloud_points>>
    /\ UNCHANGED statVars

\* variant: the empty case returns 1, as the open failure does
CheckEmptyReturnsOne ==
    /\ pc = "check"
    /\ IF points_data = <<>>
       THEN /\ exit_code' = <<1>>
            /\ pc' = "done"
       ELSE /\ exit_code' = exit_code
            /\ pc' = "median_x"
    /\ UNCHANGED log
    /\ UNCHANGED <<file, points_data, x_coords, y_coords, z_coords,
                   robust_center, p5, p95, max_robust_extent, scale,
                   cloud_points>>
    /\ UNCHANGED statVars

\* lines 84-87: if (points_data.empty()) return -1;
CheckEmpty ==
    /\ pc = "check"
    /\ IF points_data = <<>>
       THEN /\ exit_code' = <<0 - 1>>
            /\ pc' = "done"
       ELSE /\ exit_code' = exit_code
            /\ pc' = "median_x"
    /\ UNCHANGED log
    /\ UNCHANGED <<file, points_data, x_coords, y_coords, z_coords,
                   robust_center, p5, p95, max_robust_extent, scale,
                   cloud_points>>
    /\ UNCHANGED statVars

\* lines 95-97 and 99: one get_median call; its result joins robust_center
Median(next, r) ==
    /\ IF r.threw
       THEN /\ Terminate
            /\ UNCHANGED robust_center
       ELSE /\ Goto(next, "median")
            /\ robust_center' = Append(robust_center, r.ret)
    /\ UNCHANGED <<file, points_data, p5, p95, max_robust_extent, scale,
                   cloud_points, exit_code>>
    /\ UNCHANGED statVars

MedianX ==
    /\ pc = "median_x"
    /\ \E r \in get_median(x_coords) :
          /\ Median("median_y", r)
          /\ x_coords' = r.data
          /\ UNCHANGED <<y_coords, z_coords>>

MedianY ==
    /\ pc = "median_y"
    /\ \E r \in get_median(y_coords) :
          /\ Median("median_z", r)
          /\ y_coords' = r.data
          /\ UNCHANGED <<x_coords, z_coords>>

MedianZ ==
    /\ pc = "median_z"
    /\ \E r \in get_median(z_coords) :
          /\ Median("p5_x", r)
          /\ z_coords' = r.data
          /\ UNCHANGED <<x_coords, y_coords>>

\* lines 103-110: one get_percentile(coords, 0.05) call
Percentile5(next, r) ==
    /\ IF r.threw
       THEN /\ Terminate
            /\ UNCHANGED p5
       ELSE /\ Goto(next, "percentile")
            /\ p5' = Append(p5, r.ret)
    /\ UNCHANGED <<file, points_data, robust_center, p95, max_robust_extent,
                   scale, cloud_points, exit_code>>
    /\ UNCHANGED statVars

\* lines 103-110: one get_percentile(coords, 0.95) call
Percentile95(next, r) ==
    /\ IF r.threw
       THEN /\ Terminate
            /\ UNCHANGED p95
       ELSE /\ Goto(next, "percentile")
            /\ p95' = Append(p95, r.ret)
    /\ UNCHANGED <<file, points_data, robust_center, p5, max_robust_extent,
                   scale, cloud_points, exit_code>>
    /\ UNCHANGED statVars

P5X ==
    /\ pc = "p5_x"
    /\ \E r \in get_percentile(x_coords, 5) :
          /\ Percentile5("p95_x", r)
          /\ x_coords' = r.data
          /\ UNCHANGED <<y_coords, z_coords>>

P95X ==
    /\ pc = "p95_x"
    /\ \E r \in get_percentile(x_coords, 95) :
          /\ Percentile95("p5_y", r)
          /\ x_coords' = r.data
          /\ UNCHANGED <<y_coords, z_coords>>

P5Y ==
    /\ pc = "p5_y"
    /\ \E r \in get_percentile(y_coords, 5) :
          /\ Percentile5("p95_y", r)
          /\ y_coords' = r.data
          /\ UNCHANGED <<x_coords, z_coords>>

P95Y ==
    /\ pc = "p95_y"
    /\ \E r \in get_percentile(y_coords, 95) :
          /\ Percentile95("p5_z", r)
          /\ y_coords' = r.data
          /\ UNCHANGED <<x_coords, z_coords>>

P5Z ==
    /\ pc = "p5_z"
    /\ \E r \in get_percentile(z_coords, 5) :
          /\ Percentile5("p95_z", r)
          /\ z_coords' = r.data
          /\ UNCHANGED <<x_coords, y_coords>>

P95Z ==
    /\ pc = "p95_z"
    /\ \E r \in get_percentile(z_coords, 95) :
          /\ Percentile95("extent", r)
          /\ z_coords' = r.data
          /\ UNCHANGED <<x_coords, y_coords>>

Extent(i) == DSub(p95[i], p5[i])

\* variant: the guard compares with 0 instead of 1e-6
ScaleOfUnguarded(m) ==
    IF m > 0 THEN Reciprocal(m) ELSE <<1, 1>>

\* lines 119-122: scale = 1.0; if (max_robust_extent > 1e-6) scale = 1.0 / it
ScaleOf(m) ==
    IF GreaterThanEps(m) THEN Reciprocal(m) ELSE <<1, 1>>

\* lines 113-122
ComputeScale ==
    /\ pc = "extent"
    /\ LET m == DMax(DMax(Extent(1), Extent(2)), Extent(3))
       IN /\ max_robust_extent' = m
          /\ scale' = ScaleOf(m)
    /\ pc' = "build"
    /\ UNCHANGED <<file, points_data, x_coords, y_coords, z_coords,
                   robust_center, p5, p95, cloud_points, exit_code, log>>
    /\ UNCHANGED statVars

CloudCall(at, next, event, call) ==
    /\ pc = at
    /\ cloud_points' =
          [cloud_points EXCEPT !.calls = Append(cloud_points.calls, call)]
    /\ Goto(next, event)
    /\ UNCHANGED <<file, points_data, x_coords, y_coords, z_coords,
                   robust_center, p5, p95, max_robust_extent, scale, exit_code>>
    /\ UNCHANGED statVars

\* lines 130-135: a new PointCloud receives every point of points_data
BuildCloud ==
    /\ pc = "build"
    /\ cloud_points' = [points |-> points_data, calls |-> <<>>]
    /\ Goto("translate", "build")
    /\ UNCHANGED <<file, points_data, x_coords, y_coords, z_coords,
                   robust_center, p5, p95, max_robust_extent, scale, exit_code>>
    /\ UNCHANGED statVars

Negated(v) == [i \in 1..Len(v) |-> 0 - v[i]]

\* variant: the cloud is scaled where it should be translated
ScaleBeforeTranslate ==
    CloudCall("translate", "scale_cloud", "scale",
              <<"Scale", scale, <<0, 0, 0>>>>)

\* line 138
TranslateCloud ==
    CloudCall("translate", "scale_cloud", "translate",
              <<"Translate", Negated(robust_center)>>)

\* line 139
ScaleCloud ==
    CloudCall("scale_cloud", "paint", "scale", <<"Scale", scale, <<0, 0, 0>>>>)

\* line 142: the colour (0.9, 0.9, 0.1), in tenths
PaintCloud ==
    CloudCall("paint", "draw", "color", <<"PaintUniformColor", <<9, 9, 1>>>>)

\* line 150: DrawGeometries opens the window and blocks
DrawGeometries ==
    /\ pc = "draw"
    /\ Goto("window", "display")
    /\ UNCHANGED <<file, points_data, x_coords, y_coords, z_coords,
                   robust_center, p5, p95, max_robust_extent, scale,
                   cloud_points, exit_code>>
    /\ UNCHANGED statVars

\* lines 150-153: the user closes the window, DrawGeometries returns, return 0
CloseWindow ==
    /\ pc = "window"
    /\ pc' = "done"
    /\ exit_code' = <<0>>
    /\ UNCHANGED <<file, points_data, x_coords, y_coords, z_coords,
                   robust_center, p5, p95, max_robust_extent, scale,
                   cloud_points, log>>
    /\ UNCHANGED statVars

Next ==
    \/ OpenFile
    \/ \E p \in Points : ReadPoint(p)
    \/ ReadEnd
    \/ CloseFile
    \/ CheckEmpty
    \/ MedianX \/ MedianY \/ MedianZ
    \/ P5X \/ P95X \/ P5Y \/ P95Y \/ P5Z \/ P95Z
    \/ ComputeScale
    \/ BuildCloud
    \/ TranslateCloud
    \/ ScaleCloud
    \/ PaintCloud
    \/ DrawGeometries
    \/ CloseWindow

Spec == Init /\ [][Next]_vars

(***************************************************************************)
(* Reference definitions for the properties: a full sort, and the          *)
(* statistics of the loaded points computed on fresh sorted copies.        *)
(***************************************************************************)
RECURSIVE Insert(_, _)
Insert(v, s) ==
    IF s = <<>> THEN <<v>>
    ELSE IF v <= Head(s) THEN <<v>> \o s
    ELSE <<Head(s)>> \o Insert(v, Tail(s))

RECURSIVE Sorted(_)
Sorted(s) == IF s = <<>> THEN <<>> ELSE Insert(Head(s), Sorted(Tail(s)))

Axis(i) == [k \in 1..Len(points_data) |-> points_data[k][i]]

RefPercentile(i, pct) ==
    Sorted(Axis(i))[(pct * (Len(points_data) - 1)) \div 100 + 1]

RefExtent(i) == DSub(RefPercentile(i, 95), RefPercentile(i, 5))

RefMaxExtent ==
    LET e1 == RefExtent(1)
        e2 == RefExtent(2)
        e3 == RefExtent(3)
    IN IF e1 >= e2 /\ e1 >= e3 THEN e1 ELSE IF e2 >= e3 THEN e2 ELSE e3

ScaleDerived == scale # <<>>

(***************************************************************************)
(* Properties of the order-statistic helpers (under SpecStat)              *)
(***************************************************************************)
\* C1: get_percentile(A, p) on a non-empty array returns the element a fully
\* sorted copy of A holds at index floor(p * (len(A) - 1)), whatever earlier
\* get_median / get_percentile calls have reordered A.
C1_PercentileIsOrderStatistic ==
    last.op = "percentile" =>
        ret = Sorted(fresh)[(last.pct * (Len(fresh) - 1)) \div 100 + 1]

\* a 95th-percentile call on an array that earlier calls had already reordered
C1_Witness ==
    /\ last.op = "percentile"
    /\ last.pct = 95
    /\ Len(fresh) >= 3
    /\ last.before # fresh
    /\ fresh # Sorted(fresh)
    /\ ret = 1

C3_EvenMedianIsLower ==
    (last.op = "median" /\ Len(fresh) % 2 = 0) =>
        LET n == Len(fresh)
            lo == Sorted(fresh)[n \div 2]
            hi == Sorted(fresh)[n \div 2 + 1]
        IN ret = IF lo <= hi THEN lo ELSE hi

(***************************************************************************)
(* Properties of main (under Spec)                                         *)
(***************************************************************************)
\* C4, as claimed: the derived scale equals 1.0 if and only if the maximum
\* over the three axes of (95th percentile - 5th percentile) is <= 1e-6, and
\* for every larger maximum extent the scale is 1/extent and differs from 1.0.
C4_ScaleIsOneIffDegenerate ==
    ScaleDerived =>
        LET m == RefMaxExtent
        IN /\ (scale = <<1, 1>>) <=> ~GreaterThanEps(m)
           /\ GreaterThanEps(m) => (scale = Reciprocal(m) /\ scale # <<1, 1>>)

\* C4, amended: the derived scale equals 1.0 if and only if the maximum
\* extent is <= 1e-6 or is exactly 1.0, and for every maximum extent above
\* 1e-6 the scale is 1/extent.
C4_ScaleIsOneIffDegenerateOrUnit ==
    ScaleDerived =>
        LET m == RefMaxExtent
        IN /\ (scale = <<1, 1>>) <=> (~GreaterThanEps(m) \/ m = One)
           /\ GreaterThanEps(m) => scale = Reciprocal(m)

\* a positive extent that does not exceed 1e-6 falls back to scale 1.0
C4_Witness ==
    /\ pc = "build"
    /\ max_robust_extent = 1
    /\ scale = <<1, 1>>

\* C5: the derived scale is strictly greater than 0: each per-axis extent is
\* >= 0, and the scale is either 1.0 or the reciprocal of a maximum extent
\* that exceeds 1e-6.
C5_ScalePositive ==
    ScaleDerived =>
        LET m == RefMaxExtent
        IN /\ \A i \in 1..3 : RefExtent(i) >= 0
           /\ scale = <<1, 1>> \/ (GreaterThanEps(m) /\ scale = Reciprocal(m))
           /\ scale[1] > 0 /\ scale[2] > 0

ScenarioPoints == <<<<0, 0, 0>>, <<10 * One, 0, 0>>, <<20 * One, 0, 0>>>>

IsScenario == ScaleDerived /\ IsPermutation(points_data, ScenarioPoints)

\* C6, as claimed: for the input points (0,0,0), (10,0,0), (20,0,0) the
\* pipeline computes center = (10,0,0), a 5th percentile of x equal to 0 and
\* a 95th percentile of x equal to 20, extent_x equal to their difference,
\* and scale = 1/extent_x.
C6_ScenarioP95IsTwenty ==
    IsScenario =>
        /\ robust_center = <<10 * One, 0, 0>>
        /\ p5[1] = 0
        /\ p95[1] = 20 * One
        /\ max_robust_extent = DSub(p95[1], p5[1])
        /\ scale = Reciprocal(max_robust_extent)

\* C6, amended: for the input points (0,0,0), (10,0,0), (20,0,0) the pipeline
\* computes center = (10,0,0), a 5th percentile of x equal to 0 and a 95th
\* percentile of x equal to 10 (sorted index floor(0.95 * 2) = 1), extent_x
\* equal to their difference, 10, and scale = 1/extent_x = 1/10.
C6_ScenarioP95IsTen ==
    IsScenario =>
        /\ robust_center = <<10 * One, 0, 0>>
        /\ p5[1] = 0
        /\ p95[1] = 10 * One
        /\ max_robust_extent = DSub(p95[1], p5[1])
        /\ max_robust_extent = 10 * One
        /\ scale = <<1, 10>>

C6_Witness ==
    /\ pc = "done"
    /\ points_data = ScenarioPoints
    /\ scale = <<1, 10>>

\* C7: every run ends with exactly one of three exit codes: 1 iff the input
\* file could not be opened, -1 iff the file opened but zero complete points
\* were parsed, 0 iff at least one point was parsed, the run then having gone
\* through normalization and display.
C7_ExitCodes ==
    /\ pc # "terminated"
    /\ pc # "done" => exit_code = <<>>
    /\ pc = "done" =>
          /\ exit_code \in {<<1>>, <<0 - 1>>, <<0>>}
          /\ (exit_code = <<1>>) <=> (file = "failed")
          /\ (exit_code = <<0 - 1>>) <=> (file = "closed" /\ points_data = <<>>)
          /\ (exit_code = <<0>>) <=> (points_data # <<>>)
          /\ (exit_code = <<0>>) =>
                (ScaleDerived /\ Len(log) > 0 /\ log[Len(log)] = "display")

C7_Witness ==
    /\ pc = "done"
    /\ exit_code = <<0 - 1>>
    /\ file = "closed"

Repeat(n, e) == [i \in 1..n |-> e]

\* The events of a complete run over n points.
FullLog(n) ==
    <<"open">> \o Repeat(n, "parse") \o <<"close">> \o Repeat(3, "median")
      \o Repeat(6, "percentile")
      \o <<"build", "translate", "scale", "color", "display">>

IsPrefix(s, t) == Len(s) <= Len(t) /\ s = SubSeq(t, 1, Len(s))

\* C8: the events occur only in the order open -> parse -> close file ->
\* medians -> percentiles -> build cloud from original points -> translate
\* by -center -> scale about the origin -> color -> display; a run either
\* performs the whole sequence or stops before display; when the file cannot
\* be opened no parsing, statistic or display event occurs, and when zero
\* points are parsed no statistic, cloud-building or display event occurs.
C8_EventOrder ==
    /\ IsPrefix(log, FullLog(Len(points_data)))
    /\ file = "failed" => log = <<"open">>
    /\ (pc = "done" /\ file # "failed" /\ points_data = <<>>) =>
          log = <<"open", "close">>
    /\ pc = "done" =>
          log \in {<<"open">>, <<"open", "close">>, FullLog(Len(points_data))}
    /\ Len(cloud_points.calls) >= 1 =>
          cloud_points.calls[1] = <<"Translate", Negated(robust_center)>>
    /\ Len(cloud_points.calls) >= 2 =>
          cloud_points.calls[2] = <<"Scale", scale, <<0, 0, 0>>>>

C8_Witness ==
    /\ pc = "done"
    /\ Len(points_data) >= 2
    /\ log = FullLog(Len(points_data))

StatisticPcs ==
    {"median_x", "median_y", "median_z", "p5_x", "p95_x", "p5_y", "p95_y",
     "p5_z", "p95_z"}

\* C9: whenever at least one point has been parsed, none of the nine
\* statistic calls (three get_median, six get_percentile) reaches the
\* empty-array error: the three coordinate arrays have the same length as
\* the point collection at every call, so the runtime_error state is
\* unreachable from main.
C9_NoEmptyArrayError ==
    /\ pc # "terminated"
    /\ Len(x_coords) = Len(points_data)
    /\ Len(y_coords) = Len(points_data)
    /\ Len(z_coords) = Len(points_data)
    /\ pc \in StatisticPcs => points_data # <<>>

\* all nine calls have returned
C9_Witness ==
    /\ pc = "extent"
    /\ Len(robust_center) = 3 /\ Len(p5) = 3 /\ Len(p95) = 3
    /\ Len(points_data) = 1

CoordsArePermutations ==
    /\ IsPermutation(x_coords, Axis(1))
    /\ IsPermutation(y_coords, Axis(2))
    /\ IsPermutation(z_coords, Axis(3))

PointsKeepFileOrder ==
    /\ pc \notin {"start", "read"} => points_data' = points_data
    /\ pc = "read" => IsPrefix(points_data, points_data')
    /\ pc' \in {"translate", "scale_cloud", "paint", "draw", "window"} =>
          cloud_points'.points = points_data'

\* C10: after loading, at every later state each coordinate array is a
\* permutation of the corresponding coordinates of the point collection
\* (get_median and get_percentile reorder but never resize or change the
\* multiset of values), while the point collection keeps its content and
\* file order unchanged until it is copied, in that order, into the
\* displayed cloud.
C10_CoordsPermutedPointsFixed ==
    /\ [](CoordsArePermutations)
    /\ [][PointsKeepFileOrder]_vars

\* the x array has been reordered; the points and the cloud have not
C10_Witness ==
    /\ pc = "window"
    /\ x_coords # Axis(1)
    /\ cloud_points.points = points_data
    /\ Len(points_data) = 3

====
